---- MODULE Spec2Model ----
(***************************************************************************)
(* The request pipeline of prime-mcp-server: RateLimiter (rate-limiter.ts), *)
(* OAuthClient (oauth.ts) and PrimeClient.request (prime-client.ts).        *)
(*                                                                         *)
(* JavaScript runs one continuation at a time: the code between two awaits *)
(* is one atomic step, and any pending continuation may be the next to     *)
(* run.  Each action below is one such step.  Time is in milliseconds.     *)
(***************************************************************************)
EXTENDS Integers, Sequences, FiniteSets

\* ------------------------------------------------------------------ bounds
\* The three ceilings of the limiter.  The source sets them to 60, 5000 and 5
\* (rate-limiter.ts lines 36, 38, 39); the model keeps their roles and scales
\* their values so that every ceiling is reached by a handful of callers.
maxTokens == 2
dailyLimit == 3
maxConcurrent == 2
\* Callers: each makes one call.
NProcs == 4
\* Steps of the clock, calls of updateFromHeaders, token acquisitions.
MaxTicks == 2
MaxSyncs == 1
MaxAcq == 2

\* --------------------------------------------------------- program constants
refillInterval == 60000
MinSleepMs == 100
DayMs == 86400000
REFRESH_BUFFER_MS == 5 * 60 * 1000

Procs == 1..NProcs

Max(a, b) == IF a >= b THEN a ELSE b
Min(a, b) == IF a <= b THEN a ELSE b
\* Math.floor(a / b) and Math.ceil(a / b) for b > 0
Floor(a, b) == a \div b
Ceil(a, b) == -((-a) \div b)

VARIABLES
  now,            \* Date.now()
  ticks,          \* clock steps taken so far
  tokens,         \* RateLimiter.tokens
  lastRefill,     \* RateLimiter.lastRefill
  dailyCount,     \* RateLimiter.dailyCount
  dailyReset,     \* RateLimiter.dailyReset
  concurrent,     \* RateLimiter.concurrent
  waitingQueue,   \* RateLimiter.waitingQueue: the callers whose resolve is queued
  pc,             \* where each caller's continuation stands
  wakeAt,         \* the instant a caller's setTimeout in sleep() is due
  retryAfter,     \* retryAfter of the RateLimitError acquire() threw at a caller
  syncs,          \* calls of updateFromHeaders made from outside request()
  winStart,       \* observer: start of the observed window, -1 when none
  winCount,       \* observer: callers admitted in the observed window
  acquires,       \* observer: times acquire() admitted each caller
  token,          \* OAuthClient.token: 0 for null, else the acquisition it came from
  tokenExpiresAt, \* OAuthClient.tokenExpiresAt
  refreshPromise, \* OAuthClient.refreshPromise: 0 for null, else the acquisition
  acq,            \* the promises acquireToken() returned, in order: the state of
                  \* each, and the expiry and expires_in of the token it brought
  awaiting,       \* the acquisition whose promise a caller awaits
  tok,            \* the access token a caller received
  stage,          \* request(): "first" attempt, "refresh" after a 401, "retry"
  status,         \* request(): the HTTP status of the response being handled
  result,         \* what the caller's call returned or threw
  apiCalls,       \* observer: fetches of the API each caller issued
  refreshCalls,   \* observer: calls of refreshToken() each caller made
  releases,       \* observer: calls of release() each caller made
  handoff,        \* the caller between its retry's request() and its finally, or 0
  response,       \* the response last handed to updateFromHeaders() or to
                  \* handleErrorResponse() called on its own: status and headers
  thrown,         \* the error handleErrorResponse() threw for it
  details,        \* request(): the details of the error each caller's call threw
  lastStatus,     \* what getStatus() last returned, with the number of its calls
                  \* and what an observer noted at that call: the time, the time
                  \* of the call before, each caller's position, the number of
                  \* header syncs, and whether any of these had changed
  nearLimit       \* what isNearLimit() last returned, if it was called

clockVars == <<now, ticks>>
limiterVars == <<tokens, lastRefill, dailyCount, dailyReset, concurrent, waitingQueue>>
waitVars == <<wakeAt, retryAfter>>
observerVars == <<winStart, winCount, acquires>>
authVars == <<token, tokenExpiresAt, refreshPromise, acq>>
tokenVars == <<awaiting, tok>>
requestVars == <<stage, status, result, apiCalls, refreshCalls, releases, handoff>>
responseVars == <<response, thrown, details, lastStatus, nearLimit>>
vars == <<now, ticks, tokens, lastRefill, dailyCount, dailyReset, concurrent,
          waitingQueue, pc, wakeAt, retryAfter, syncs, winStart, winCount, acquires,
          token, tokenExpiresAt, refreshPromise, acq, awaiting, tok,
          stage, status, result, apiCalls, refreshCalls, releases, handoff,
          response, thrown, details, lastStatus, nearLimit>>

\* ------------------------------------------------------------- RateLimiter

\* getNextMidnight() giving the midnight that starts the day of t
getNextMidnight_SameDay(t) == Floor(t, DayMs) * DayMs
\* getNextMidnight(): the first midnight strictly after instant t
getNextMidnight(t) == (Floor(t, DayMs) + 1) * DayMs

\* The instant at which the limiter is constructed: shortly before a midnight,
\* so that the clock's steps reach both a refill and the daily reset.
StartTime == DayMs - refillInterval - MinSleepMs

\* refillTokens(): the four fields it may write, as it leaves them
refillDailyCount == IF now >= dailyReset THEN 0 ELSE dailyCount
refillDailyReset == IF now >= dailyReset THEN getNextMidnight(now) ELSE dailyReset
\* refillTokens() adding the missed refills without the cap
refillTokensValue_NoCap ==
  LET elapsed == now - lastRefill
      refills == Floor(elapsed, refillInterval)
  IN  IF elapsed >= refillInterval
      THEN tokens + refills * maxTokens
      ELSE tokens
\* refillTokens(), lines 66-72, on a limiter whose bucket holds cap tokens
refillTokensValueOf(cap) ==
  LET elapsed == now - lastRefill
      refills == Floor(elapsed, refillInterval)
  IN  IF elapsed >= refillInterval
      THEN Min(cap, tokens + refills * cap)
      ELSE tokens
refillTokensValue == refillTokensValueOf(maxTokens)
refillLastRefill ==
  LET elapsed == now - lastRefill
  IN  IF elapsed >= refillInterval
      THEN now - (elapsed % refillInterval)
      ELSE lastRefill

refillTokens ==
  /\ dailyCount' = refillDailyCount
  /\ dailyReset' = refillDailyReset
  /\ tokens' = refillTokensValue
  /\ lastRefill' = refillLastRefill

\* the observer counts an admission that falls in the observed window
Observe ==
  /\ winStart' = winStart
  /\ winCount' = IF winStart >= 0 /\ now < winStart + refillInterval
                 THEN winCount + 1 ELSE winCount

\* acquire(), lines 103-105: the caller is charged and admitted.
\* tk, dc: tokens and dailyCount as the code before left them.
Charge(c, tk, dc) ==
  /\ tokens' = tk - 1
  /\ dailyCount' = dc + 1
  /\ concurrent' = concurrent + 1
  /\ pc' = [pc EXCEPT ![c] = "admitted"]
  /\ Observe
  /\ acquires' = [acquires EXCEPT ![c] = @ + 1]
  /\ wakeAt' = [wakeAt EXCEPT ![c] = 0]
  /\ UNCHANGED waitingQueue

\* the per-minute loop admitting a caller when no token is left (< for <=)
MinuteLoop_AdmitsAtZero(c, tk, lr, dc) ==
  IF tk < 0
  THEN /\ wakeAt' = [wakeAt EXCEPT ![c] =
                       now + Max(refillInterval - (now - lr), MinSleepMs)]
       /\ pc' = [pc EXCEPT ![c] = "sleep"]
       /\ tokens' = tk
       /\ dailyCount' = dc
       /\ UNCHANGED <<concurrent, waitingQueue, winStart, winCount, acquires>>
  ELSE Charge(c, tk, dc)

\* acquire(), lines 97-101: the per-minute loop, entered with tokens tk,
\* lastRefill lr, dailyCount dc
MinuteLoop(c, tk, lr, dc) ==
  IF tk <= 0
  THEN /\ wakeAt' = [wakeAt EXCEPT ![c] =
                       now + Max(refillInterval - (now - lr), MinSleepMs)]
       /\ pc' = [pc EXCEPT ![c] = "sleep"]
       /\ tokens' = tk
       /\ dailyCount' = dc
       /\ UNCHANGED <<concurrent, waitingQueue, winStart, winCount, acquires>>
  ELSE Charge(c, tk, dc)

\* the slot loop letting a caller through at the ceiling (> for >=)
SlotLoop_CeilingOffByOne(c, tk, lr, dc) ==
  IF concurrent > maxConcurrent
  THEN /\ waitingQueue' = Append(waitingQueue, c)
       /\ pc' = [pc EXCEPT ![c] = "slotWait"]
       /\ tokens' = tk
       /\ dailyCount' = dc
       /\ UNCHANGED <<concurrent, wakeAt, winStart, winCount, acquires>>
  ELSE MinuteLoop(c, tk, lr, dc)

\* the slot loop taking the slot already when it queues the caller
SlotLoop_CountsWaiter(c, tk, lr, dc) ==
  IF concurrent >= maxConcurrent
  THEN /\ waitingQueue' = Append(waitingQueue, c)
       /\ pc' = [pc EXCEPT ![c] = "slotWait"]
       /\ tokens' = tk
       /\ dailyCount' = dc
       /\ concurrent' = concurrent + 1
       /\ UNCHANGED <<wakeAt, winStart, winCount, acquires>>
  ELSE MinuteLoop(c, tk, lr, dc)
\* acquire(), lines 92-94: the slot loop, then the per-minute loop
SlotLoop(c, tk, lr, dc) ==
  IF concurrent >= maxConcurrent
  THEN /\ waitingQueue' = Append(waitingQueue, c)
       /\ pc' = [pc EXCEPT ![c] = "slotWait"]
       /\ tokens' = tk
       /\ dailyCount' = dc
       /\ UNCHANGED <<concurrent, wakeAt, winStart, winCount, acquires>>
  ELSE MinuteLoop(c, tk, lr, dc)

\* acquire() with the daily check off by one (> for >=)
AcquireEnter_DailyOffByOne(c) ==
  /\ dailyReset' = refillDailyReset
  /\ lastRefill' = refillLastRefill
  /\ IF refillDailyCount > dailyLimit
     THEN /\ retryAfter' = [retryAfter EXCEPT ![c] = Ceil(refillDailyReset - now, 1000)]
          /\ pc' = [pc EXCEPT ![c] = "rejected"]
          /\ tokens' = refillTokensValue
          /\ dailyCount' = refillDailyCount
          /\ UNCHANGED <<concurrent, waitingQueue, wakeAt, winStart, winCount, acquires>>
     ELSE /\ SlotLoop(c, refillTokensValue, refillLastRefill, refillDailyCount)
          /\ UNCHANGED retryAfter

\* acquire(), lines 80-89 and on: refill, the daily check, then the loops
AcquireEnter(c) ==
  /\ dailyReset' = refillDailyReset
  /\ lastRefill' = refillLastRefill
  /\ IF refillDailyCount >= dailyLimit
     THEN /\ retryAfter' = [retryAfter EXCEPT ![c] = Ceil(refillDailyReset - now, 1000)]
          /\ pc' = [pc EXCEPT ![c] = "rejected"]
          /\ tokens' = refillTokensValue
          /\ dailyCount' = refillDailyCount
          /\ UNCHANGED <<concurrent, waitingQueue, wakeAt, winStart, winCount, acquires>>
     ELSE /\ SlotLoop(c, refillTokensValue, refillLastRefill, refillDailyCount)
          /\ UNCHANGED retryAfter

\* a waiter whose resolve was called re-evaluates the slot loop (line 92)
ResumeSlot(c) ==
  /\ handoff = 0
  /\ pc[c] = "woken"
  /\ SlotLoop(c, tokens, lastRefill, dailyCount)
  /\ UNCHANGED <<lastRefill, dailyReset, retryAfter>>
  /\ UNCHANGED <<clockVars, responseVars, syncs, authVars, tokenVars, requestVars>>

\* a sleeper whose timer is due: refillTokens(), then the loop test (lines 100, 97)
ResumeSleep(c) ==
  /\ handoff = 0
  /\ pc[c] = "sleep"
  /\ now >= wakeAt[c]
  /\ dailyReset' = refillDailyReset
  /\ lastRefill' = refillLastRefill
  /\ MinuteLoop(c, refillTokensValue, refillLastRefill, refillDailyCount)
  /\ UNCHANGED retryAfter
  /\ UNCHANGED <<clockVars, responseVars, syncs, authVars, tokenVars, requestVars>>

\* release(): what it leaves in concurrent, waitingQueue and the woken waiter
releaseConcurrent == Max(0, concurrent - 1)
releaseQueue == IF waitingQueue = <<>> THEN <<>> ELSE Tail(waitingQueue)
releaseWake(p) ==
  IF waitingQueue = <<>> THEN p ELSE [p EXCEPT ![Head(waitingQueue)] = "woken"]

\* release() giving the per-minute token back with the slot
release_RefundsToken(c, next) ==
  /\ concurrent' = releaseConcurrent
  /\ waitingQueue' = releaseQueue
  /\ pc' = releaseWake([pc EXCEPT ![c] = next])
  /\ releases' = [releases EXCEPT ![c] = @ + 1]
  /\ tokens' = Min(maxTokens, tokens + 1)
  /\ UNCHANGED <<lastRefill, dailyCount, dailyReset>>

\* release() by caller c, whose continuation then stands at `next`
release(c, next) ==
  /\ concurrent' = releaseConcurrent
  /\ waitingQueue' = releaseQueue
  /\ pc' = releaseWake([pc EXCEPT ![c] = next])
  /\ releases' = [releases EXCEPT ![c] = @ + 1]
  /\ UNCHANGED <<tokens, lastRefill, dailyCount, dailyReset>>

\* getStatus(), lines 157-166: refillTokens(), then the counters, the end of
\* the refill interval and the daily reset as they are left. At most
\* MaxStatusCalls calls are followed.
MaxStatusCalls == 2
NoStatus ==
  [calls |-> 0, at |-> 0, since |-> 0, quiet |-> FALSE, tokensRemaining |-> 0, dailyRemaining |-> 0,
   concurrentActive |-> 0, nextRefill |-> 0, dailyReset |-> 0,
   pc |-> [c \in Procs |-> "idle"], syncs |-> 0]
\* the observer: no caller has moved and no header sync has run since the call
\* of getStatus() before
Quiet == lastStatus.calls > 0 /\ pc = lastStatus.pc /\ syncs = lastStatus.syncs
\* getStatus() reporting the bucket as it was before refillTokens()
getStatus_BeforeRefill ==
  [calls |-> lastStatus.calls + 1, at |-> now,
   since |-> lastStatus.at, quiet |-> Quiet,
   tokensRemaining |-> tokens,
   dailyRemaining |-> dailyLimit - refillDailyCount,
   concurrentActive |-> concurrent,
   nextRefill |-> refillLastRefill + refillInterval,
   dailyReset |-> refillDailyReset,
   pc |-> pc, syncs |-> syncs]
\* getStatus() reporting the daily count as it was before refillTokens()
getStatus_StaleDaily ==
  [calls |-> lastStatus.calls + 1, at |-> now,
   since |-> lastStatus.at, quiet |-> Quiet,
   tokensRemaining |-> refillTokensValue,
   dailyRemaining |-> dailyLimit - dailyCount,
   concurrentActive |-> concurrent,
   nextRefill |-> refillLastRefill + refillInterval,
   dailyReset |-> refillDailyReset,
   pc |-> pc, syncs |-> syncs]
getStatus ==
  [calls |-> lastStatus.calls + 1, at |-> now,
   since |-> lastStatus.at, quiet |-> Quiet,
   tokensRemaining |-> refillTokensValue,
   dailyRemaining |-> dailyLimit - refillDailyCount,
   concurrentActive |-> concurrent,
   nextRefill |-> refillLastRefill + refillInterval,
   dailyReset |-> refillDailyReset,
   pc |-> pc, syncs |-> syncs]
GetStatus ==
  /\ lastStatus.calls < MaxStatusCalls
  /\ refillTokens
  /\ lastStatus' = getStatus
  /\ UNCHANGED <<clockVars, response, thrown, details, nearLimit, concurrent,
                 waitingQueue, pc, waitVars, syncs, observerVars, authVars, tokenVars,
                 requestVars>>

\* isNearLimit(), lines 171-174: refillTokens(), then the comparison of what is
\* left with the two low-water marks
NearTokens == 5
NearDaily == 100
NotAsked == [called |-> FALSE, near |-> FALSE]
\* the comparison of line 173 looking at the per-minute allowance only
nearLimitTest_TokensOnly(tk, dc, limit) == tk <= NearTokens
\* the comparison of line 173: tk tokens left, dc calls counted today, a daily
\* limit of limit
nearLimitTest(tk, dc, limit) == tk <= NearTokens \/ limit - dc <= NearDaily
\* isNearLimit() on a limiter whose bucket holds cap tokens and whose daily
\* limit is limit
isNearLimitOf(cap, limit) ==
  [called |-> TRUE,
   near |-> nearLimitTest(refillTokensValueOf(cap), refillDailyCount, limit)]
IsNearLimitOf(cap, limit) ==
  /\ dailyCount' = refillDailyCount
  /\ dailyReset' = refillDailyReset
  /\ tokens' = refillTokensValueOf(cap)
  /\ lastRefill' = refillLastRefill
  /\ nearLimit' = isNearLimitOf(cap, limit)
  /\ UNCHANGED <<clockVars, response, thrown, details, lastStatus, concurrent,
                 waitingQueue, pc, waitVars, syncs, observerVars, authVars, tokenVars,
                 requestVars>>
\* isNearLimit() on the limiter of the model's size
isNearLimit == isNearLimitOf(maxTokens, dailyLimit)
IsNearLimit == IsNearLimitOf(maxTokens, dailyLimit)

\* The limiter as it is shipped: a bucket of 60 tokens and 5000 calls a day.
\* The test of isNearLimit() admits 56 calls within one minute.
ShippedMaxTokens == 60
ShippedDailyLimit == 5000
TestAdmissions == 56
\* isNearLimit() on the shipped limiter
ShippedIsNearLimit == IsNearLimitOf(ShippedMaxTokens, ShippedDailyLimit)

\* A header as headers.get() returns it: null (absent) or its text
NoHeader == [present |-> FALSE, text |-> <<>>]
Header(s) == [present |-> TRUE, text |-> s]

\* parseInt(text, 10): leading white space is skipped, then an optional sign,
\* then the longest run of decimal digits; NaN when that run is empty
DigitChars == <<"0", "1", "2", "3", "4", "5", "6", "7", "8", "9">>
IsDigit(ch) == \E i \in 1..10 : DigitChars[i] = ch
DigitValue(ch) == (CHOOSE i \in 1..10 : DigitChars[i] = ch) - 1
RECURSIVE SkipWhiteSpace(_)
SkipWhiteSpace(s) ==
  IF s # <<>> /\ Head(s) = " " THEN SkipWhiteSpace(Tail(s)) ELSE s
RECURSIVE DigitRun(_)
DigitRun(s) ==
  IF s # <<>> /\ IsDigit(Head(s)) THEN <<Head(s)>> \o DigitRun(Tail(s)) ELSE <<>>
RECURSIVE DigitsValue(_, _)
DigitsValue(s, acc) ==
  IF s = <<>> THEN acc ELSE DigitsValue(Tail(s), 10 * acc + DigitValue(Head(s)))
NaN == [nan |-> TRUE, val |-> 0]
Number(n) == [nan |-> FALSE, val |-> n]
parseInt(s) ==
  LET t == SkipWhiteSpace(s)
      signed == t # <<>> /\ Head(t) \in {"-", "+"}
      z == DigitRun(IF signed THEN Tail(t) ELSE t)
  IN  IF z = <<>> THEN NaN
      ELSE Number(IF signed /\ Head(t) = "-" THEN -DigitsValue(z, 0)
                  ELSE DigitsValue(z, 0))

\* header texts: every string over HeaderChars of at most MaxHeaderLen characters
\* (headers.get() returns a value without leading or trailing white space)
MaxHeaderLen == 2
HeaderChars == {"0", "1", "-", "x"}
HeaderTexts == UNION {[1..n -> HeaderChars] : n \in 0..MaxHeaderLen}
HeaderValues == {NoHeader} \cup {Header(s) : s \in HeaderTexts}

\* no response handled yet, no error thrown yet
NoResponse == [status |-> 0, minute |-> NoHeader, day |-> NoHeader, retry |-> NoHeader]
NoError == [code |-> "none", status |-> 0, retryAfter |-> Number(0)]

\* updateFromHeaders(): the well-formed hints a response of the API carries:
\* no header, or a count within the limits
HintValues == {NoHeader, Header(<<"0">>), Header(<<"1">>)}
\* updateFromHeaders() taking the reported per-minute value as it is, no minimum
updateTokens_Overwrite(r) ==
  IF r.present /\ ~parseInt(r.text).nan
  THEN parseInt(r.text).val ELSE tokens

\* updateFromHeaders(), lines 138-143 and 145-151, for the header values r, d
updateTokens(r) ==
  IF r.present /\ ~parseInt(r.text).nan
  THEN Min(parseInt(r.text).val, tokens) ELSE tokens
updateDailyCount(d) ==
  IF d.present /\ ~parseInt(d.text).nan
  THEN dailyLimit - parseInt(d.text).val ELSE dailyCount

\* the clock: it does not advance past a continuation that is ready to run
Ready(c) ==
  \/ pc[c] = "woken"
  \/ pc[c] \in {"tokOwn", "tokJoin"} /\ acq[awaiting[c]].st # "pending"
  \/ pc[c] \in {"admitted", "tokReady", "tokFail"} /\ stage[c] # "none"
Tick(d, max) ==
  /\ handoff = 0
  /\ ticks < max
  /\ \A c \in Procs : ~Ready(c)
  /\ ticks' = ticks + 1
  /\ now' = now + d
  /\ UNCHANGED <<responseVars, limiterVars, pc, waitVars, syncs, observerVars, authVars,
                 tokenVars, requestVars>>

\* ---------------------------------------------------- callers of RateLimiter

\* acquire() called by a caller that has made no call yet; callers are numbered
\* in the order of their calls
Acquire(c) ==
  /\ pc[c] = "idle"
  /\ IF c = 1 THEN TRUE ELSE pc[c - 1] # "idle"
  /\ AcquireEnter(c)
  /\ UNCHANGED <<clockVars, responseVars, syncs, authVars, tokenVars, requestVars>>

\* release() by an admitted caller
Release(c) ==
  /\ pc[c] = "admitted"
  /\ release(c, "released")
  /\ UNCHANGED <<clockVars, responseVars, waitVars, syncs, observerVars, authVars, tokenVars,
                 stage, status, result, apiCalls, refreshCalls, handoff>>

\* release() on an idle limiter (the test "should not go below zero concurrent")
ReleaseIdle ==
  /\ concurrent = 0
  /\ concurrent' = releaseConcurrent
  /\ waitingQueue' = releaseQueue
  /\ pc' = releaseWake(pc)
  /\ UNCHANGED <<clockVars, responseVars, tokens, lastRefill, dailyCount, dailyReset, waitVars,
                 syncs, observerVars, authVars, tokenVars, requestVars>>

\* updateFromHeaders() called on the limiter
UpdateFromHeaders(r, d) ==
  /\ syncs < MaxSyncs
  /\ syncs' = syncs + 1
  /\ tokens' = updateTokens(r)
  /\ dailyCount' = updateDailyCount(d)
  /\ UNCHANGED <<clockVars, responseVars, lastRefill, dailyReset, concurrent, waitingQueue, pc,
                 waitVars, observerVars, authVars, tokenVars, requestVars>>

\* updateFromHeaders() called once with headers r, d of any text, recorded
UpdateFromHeaderText ==
  /\ syncs < MaxSyncs
  /\ response = NoResponse
  /\ \E r \in HeaderValues, d \in HeaderValues :
       /\ response' = [NoResponse EXCEPT !.minute = r, !.day = d]
       /\ tokens' = updateTokens(r)
       /\ dailyCount' = updateDailyCount(d)
  /\ syncs' = syncs + 1
  /\ UNCHANGED <<clockVars, thrown, details, lastStatus, nearLimit, lastRefill, dailyReset, concurrent, waitingQueue,
                 pc, waitVars, observerVars, authVars, tokenVars, requestVars>>

\* the observer starts watching a window of one refill interval
StartWindow ==
  /\ winStart = -1
  /\ winStart' = now
  /\ winCount' = 0
  /\ UNCHANGED <<clockVars, responseVars, limiterVars, pc, waitVars, syncs, acquires, authVars,
                 tokenVars, requestVars>>

\* -------------------------------------------------------------- OAuthClient

\* expires_in, in seconds, as the token endpoint may report it
ExpiresInValues == {300, 3600}
\* the same, with a token that lives one second
ShortExpiresInValues == {1} \cup ExpiresInValues
\* Callers of getAccessToken() and refreshToken()
NAuth == 3

\* getAccessToken() without the test for an acquisition in flight
getAccessToken_NoShare(c, tkn, exp) ==
  /\ token' = tkn
  /\ tokenExpiresAt' = exp
  /\ IF tkn # 0 /\ now < exp - REFRESH_BUFFER_MS
     THEN /\ tok' = [tok EXCEPT ![c] = tkn]
          /\ pc' = [pc EXCEPT ![c] = "tokReady"]
          /\ UNCHANGED <<refreshPromise, acq, awaiting>>
     ELSE /\ Len(acq) < MaxAcq
          /\ acq' = Append(acq, [st |-> "pending", exp |-> 0, ein |-> 0])
          /\ refreshPromise' = Len(acq) + 1
          /\ awaiting' = [awaiting EXCEPT ![c] = Len(acq) + 1]
          /\ pc' = [pc EXCEPT ![c] = "tokOwn"]
          /\ UNCHANGED tok

\* getAccessToken() returning any cached token, whatever its expiry
getAccessToken_NoExpiry(c, tkn, exp) ==
  /\ token' = tkn
  /\ tokenExpiresAt' = exp
  /\ IF refreshPromise # 0
     THEN /\ awaiting' = [awaiting EXCEPT ![c] = refreshPromise]
          /\ pc' = [pc EXCEPT ![c] = "tokJoin"]
          /\ UNCHANGED <<refreshPromise, acq, tok>>
     ELSE IF tkn # 0
     THEN /\ tok' = [tok EXCEPT ![c] = tkn]
          /\ pc' = [pc EXCEPT ![c] = "tokReady"]
          /\ UNCHANGED <<refreshPromise, acq, awaiting>>
     ELSE /\ Len(acq) < MaxAcq
          /\ acq' = Append(acq, [st |-> "pending", exp |-> 0, ein |-> 0])
          /\ refreshPromise' = Len(acq) + 1
          /\ awaiting' = [awaiting EXCEPT ![c] = Len(acq) + 1]
          /\ pc' = [pc EXCEPT ![c] = "tokOwn"]
          /\ UNCHANGED tok

\* getAccessToken() with the cache test against the expiry itself, no buffer
getAccessToken_NoBuffer(c, tkn, exp) ==
  /\ token' = tkn
  /\ tokenExpiresAt' = exp
  /\ IF refreshPromise # 0
     THEN /\ awaiting' = [awaiting EXCEPT ![c] = refreshPromise]
          /\ pc' = [pc EXCEPT ![c] = "tokJoin"]
          /\ UNCHANGED <<refreshPromise, acq, tok>>
     ELSE IF tkn # 0 /\ now < exp
     THEN /\ tok' = [tok EXCEPT ![c] = tkn]
          /\ pc' = [pc EXCEPT ![c] = "tokReady"]
          /\ UNCHANGED <<refreshPromise, acq, awaiting>>
     ELSE /\ Len(acq) < MaxAcq
          /\ acq' = Append(acq, [st |-> "pending", exp |-> 0, ein |-> 0])
          /\ refreshPromise' = Len(acq) + 1
          /\ awaiting' = [awaiting EXCEPT ![c] = Len(acq) + 1]
          /\ pc' = [pc EXCEPT ![c] = "tokOwn"]
          /\ UNCHANGED tok

\* getAccessToken(), lines 41-53, with the credential slot holding (tkn, exp):
\* share the acquisition in flight, or return the cached token, or start an
\* acquisition (acquireToken() up to its fetch of the token endpoint)
getAccessToken(c, tkn, exp) ==
  /\ token' = tkn
  /\ tokenExpiresAt' = exp
  /\ IF refreshPromise # 0
     THEN /\ awaiting' = [awaiting EXCEPT ![c] = refreshPromise]
          /\ pc' = [pc EXCEPT ![c] = "tokJoin"]
          /\ UNCHANGED <<refreshPromise, acq, tok>>
     ELSE IF tkn # 0 /\ now < exp - REFRESH_BUFFER_MS
     THEN /\ tok' = [tok EXCEPT ![c] = tkn]
          /\ pc' = [pc EXCEPT ![c] = "tokReady"]
          /\ UNCHANGED <<refreshPromise, acq, awaiting>>
     ELSE /\ Len(acq) < MaxAcq
          /\ acq' = Append(acq, [st |-> "pending", exp |-> 0, ein |-> 0])
          /\ refreshPromise' = Len(acq) + 1
          /\ awaiting' = [awaiting EXCEPT ![c] = Len(acq) + 1]
          /\ pc' = [pc EXCEPT ![c] = "tokOwn"]
          /\ UNCHANGED tok

\* acquireToken(), lines 87-122: the token endpoint answers acquisition k, with
\* a token that expires in e seconds (ok) or with an error or no answer at all
TokenEndpoint(k, ok, e) ==
  /\ handoff = 0
  /\ k \in 1..Len(acq)
  /\ acq[k].st = "pending"
  /\ IF ok
     THEN /\ token' = k
          /\ tokenExpiresAt' = now + e * 1000
          /\ acq' = [acq EXCEPT ![k] =
                      [st |-> "resolved", exp |-> now + e * 1000, ein |-> e]]
     ELSE /\ acq' = [acq EXCEPT ![k] = [st |-> "rejected", exp |-> 0, ein |-> 0]]
          /\ UNCHANGED <<token, tokenExpiresAt>>
  /\ UNCHANGED <<clockVars, responseVars, limiterVars, pc, waitVars, syncs, observerVars,
                 refreshPromise, tokenVars, requestVars>>

\* what a caller finds when the promise it awaits has settled
settled(c, p) ==
  IF acq[awaiting[c]].st = "resolved"
  THEN [p EXCEPT ![c] = "tokReady"]
  ELSE [p EXCEPT ![c] = "tokFail"]
settledTok(c) ==
  IF acq[awaiting[c]].st = "resolved"
  THEN [tok EXCEPT ![c] = awaiting[c]]
  ELSE tok

\* getAccessToken() clearing refreshPromise only when the acquisition succeeded
OwnerResume_KeepsMarker(c) ==
  /\ handoff = 0
  /\ pc[c] = "tokOwn"
  /\ acq[awaiting[c]].st # "pending"
  /\ refreshPromise' = IF acq[awaiting[c]].st = "resolved" THEN 0 ELSE refreshPromise
  /\ pc' = settled(c, pc)
  /\ tok' = settledTok(c)
  /\ awaiting' = [awaiting EXCEPT ![c] = 0]
  /\ UNCHANGED <<clockVars, responseVars, limiterVars, waitVars, syncs, observerVars, token,
                 tokenExpiresAt, acq, requestVars>>

\* getAccessToken(), lines 55-60: the caller that started the acquisition
\* resumes, and its finally clears refreshPromise
OwnerResume(c) ==
  /\ handoff = 0
  /\ pc[c] = "tokOwn"
  /\ acq[awaiting[c]].st # "pending"
  /\ refreshPromise' = 0
  /\ pc' = settled(c, pc)
  /\ tok' = settledTok(c)
  /\ awaiting' = [awaiting EXCEPT ![c] = 0]
  /\ UNCHANGED <<clockVars, responseVars, limiterVars, waitVars, syncs, observerVars, token,
                 tokenExpiresAt, acq, requestVars>>

\* getAccessToken(), line 44: a caller that was handed the promise in flight
\* resumes with its result
JoinerResume(c) ==
  /\ handoff = 0
  /\ pc[c] = "tokJoin"
  /\ acq[awaiting[c]].st # "pending"
  /\ pc' = settled(c, pc)
  /\ tok' = settledTok(c)
  /\ awaiting' = [awaiting EXCEPT ![c] = 0]
  /\ UNCHANGED <<clockVars, responseVars, limiterVars, waitVars, syncs, observerVars, authVars,
                 requestVars>>

\* getAccessToken() called by a caller that has made no call yet
GetAccessToken(c) ==
  /\ pc[c] = "idle"
  /\ c <= NAuth
  /\ IF c = 1 THEN TRUE ELSE pc[c - 1] # "idle"
  /\ getAccessToken(c, token, tokenExpiresAt)
  /\ UNCHANGED <<clockVars, responseVars, limiterVars, waitVars, syncs, observerVars, requestVars>>

\* refreshToken() leaving the cached credential in place
RefreshToken_KeepsCache(c) ==
  /\ pc[c] = "idle"
  /\ c <= NAuth
  /\ IF c = 1 THEN TRUE ELSE pc[c - 1] # "idle"
  /\ refreshCalls' = [refreshCalls EXCEPT ![c] = @ + 1]
  /\ getAccessToken(c, token, tokenExpiresAt)
  /\ UNCHANGED <<clockVars, responseVars, limiterVars, waitVars, syncs, observerVars,
                 stage, status, result, apiCalls, releases, handoff>>

\* refreshToken(), lines 128-132, called by a caller that has made no call yet
RefreshToken(c) ==
  /\ pc[c] = "idle"
  /\ c <= NAuth
  /\ IF c = 1 THEN TRUE ELSE pc[c - 1] # "idle"
  /\ refreshCalls' = [refreshCalls EXCEPT ![c] = @ + 1]
  /\ getAccessToken(c, 0, 0)
  /\ UNCHANGED <<clockVars, responseVars, limiterVars, waitVars, syncs, observerVars,
                 stage, status, result, apiCalls, releases, handoff>>

\* clearToken() forgetting the token but not its expiry
ClearToken_KeepsExpiry ==
  /\ token' = 0
  /\ UNCHANGED <<clockVars, responseVars, limiterVars, pc, waitVars, syncs, observerVars,
                 tokenExpiresAt, refreshPromise, acq, tokenVars, requestVars>>

\* clearToken(), lines 156-159
ClearToken ==
  /\ token' = 0
  /\ tokenExpiresAt' = 0
  /\ UNCHANGED <<clockVars, responseVars, limiterVars, pc, waitVars, syncs, observerVars,
                 refreshPromise, acq, tokenVars, requestVars>>

\* ------------------------------------------------------- PrimeClient.request

\* The callers of request(); the HTTP statuses the API answers with
Requesters == {1, 2}
\* Steps of the clock while request() is watched
ReqTicks == 1
Statuses == {200, 204, 401, 500}
\* the rate-limit headers of a response: none, or both reporting 0 left
ResponseHints ==
  {<<NoHeader, NoHeader>>, <<Header(<<"0">>), Header(<<"0">>)>>}

\* handleErrorResponse(), lines 214-258: the error raised for a status
handleErrorResponse(st) ==
  CASE st = 401 -> "UNAUTHORIZED"
    [] st = 403 -> "FORBIDDEN"
    [] st = 404 -> "NOT_FOUND"
    [] st = 422 -> "VALIDATION_ERROR"
    [] st = 429 -> "RATE_LIMITED"
    [] st \in {500, 502, 503, 504} -> "SERVER_ERROR"
    [] OTHER -> "API_ERROR"

\* handleErrorResponse(), lines 241-242: the seconds passed to RateLimitError
\* for the retry-after header h
retrySeconds(h) ==
  IF h.present /\ h.text # <<>> THEN parseInt(h.text) ELSE Number(60)

\* handleErrorResponse(): the error thrown for a response with status st and
\* retry-after header h. A RateLimitError carries retryAfter and no status; a
\* PrimeApiError carries the status and no retryAfter (kept as 0 here).
thrownFor(st, h) ==
  [code |-> handleErrorResponse(st),
   status |-> IF st = 429 THEN 0 ELSE st,
   retryAfter |-> IF st = 429 THEN retrySeconds(h) ELSE Number(0)]

\* the statuses of a response that is not ok
ErrorStatuses == 300..599

\* handleErrorResponse() called once, on a response of any status that is not
\* ok; the retry-after header is read for a 429 only
HandleErrorResponse ==
  /\ response = NoResponse
  /\ thrown = NoError
  /\ \E st \in ErrorStatuses, h \in HeaderValues :
       /\ st # 429 => h = NoHeader
       /\ response' = [NoResponse EXCEPT !.status = st, !.retry = h]
       /\ thrown' = thrownFor(st, h)
  /\ UNCHANGED <<clockVars, details, lastStatus, nearLimit, limiterVars, pc, waitVars, syncs, observerVars,
                 authVars, tokenVars, requestVars>>

\* request(), line 58: the call, up to the first suspension of acquire()
Request(c) ==
  /\ handoff = 0
  /\ pc[c] = "idle"
  /\ c \in Requesters
  /\ IF c = 1 THEN TRUE ELSE pc[c - 1] # "idle"
  /\ stage' = [stage EXCEPT ![c] = "first"]
  /\ AcquireEnter(c)
  /\ result' = [result EXCEPT ![c] =
                  IF pc'[c] = "rejected" THEN "RATE_LIMITED" ELSE @]
  /\ UNCHANGED <<clockVars, responseVars, syncs, authVars, tokenVars,
                 status, apiCalls, refreshCalls, releases, handoff>>

\* request(), line 62: admitted, the caller asks for the access token
ReqGetToken(c) ==
  /\ handoff = 0
  /\ pc[c] = "admitted"
  /\ stage[c] \in {"first", "retry"}
  /\ getAccessToken(c, token, tokenExpiresAt)
  /\ UNCHANGED <<clockVars, responseVars, limiterVars, waitVars, syncs, observerVars, requestVars>>

\* request(), lines 64-74: the fetch of the API is issued
ReqFetch(c) ==
  /\ handoff = 0
  /\ pc[c] = "tokReady"
  /\ stage[c] \in {"first", "retry"}
  /\ apiCalls' = [apiCalls EXCEPT ![c] = @ + 1]
  /\ pc' = [pc EXCEPT ![c] = "fetching"]
  /\ UNCHANGED <<clockVars, responseVars, limiterVars, waitVars, syncs, observerVars, authVars,
                 tokenVars, stage, status, result, refreshCalls, releases, handoff>>

\* the OAuthError path of request() leaving without release()
ReqTokenFail_NoRelease(c) ==
  /\ handoff = 0
  /\ pc[c] = "tokFail"
  /\ stage[c] # "none"
  /\ result' = [result EXCEPT ![c] = "AUTH_ERROR"]
  /\ pc' = [pc EXCEPT ![c] = "done"]
  /\ UNCHANGED <<clockVars, responseVars, limiterVars, waitVars, syncs, observerVars, authVars,
                 tokenVars, stage, status, apiCalls, refreshCalls, releases, handoff>>

\* request(), lines 109-121: getAccessToken() or refreshToken() threw OAuthError
ReqTokenFail(c) ==
  /\ handoff = 0
  /\ pc[c] = "tokFail"
  /\ stage[c] # "none"
  /\ result' = [result EXCEPT ![c] = "AUTH_ERROR"]
  /\ release(c, "done")
  /\ UNCHANGED <<clockVars, responseVars, waitVars, syncs, observerVars, authVars, tokenVars,
                 stage, status, apiCalls, refreshCalls, handoff>>

\* request(), lines 66 and 118-121: the fetch fails (no response)
TransportFailure(c) ==
  /\ handoff = 0
  /\ pc[c] = "fetching"
  /\ result' = [result EXCEPT ![c] = "NETWORK_ERROR"]
  /\ release(c, "done")
  /\ UNCHANGED <<clockVars, responseVars, waitVars, syncs, observerVars, authVars, tokenVars,
                 stage, status, apiCalls, refreshCalls, handoff>>

\* request() taking a 403 for an authorization failure too, and retrying it
Response_RetriesForbidden(c, st, r, d) ==
  /\ handoff = 0
  /\ pc[c] = "fetching"
  /\ IF st \in {401, 403} /\ stage[c] = "first"
     THEN \* lines 80-82: refreshToken()
          /\ tokens' = updateTokens(r)
          /\ dailyCount' = updateDailyCount(d)
          /\ stage' = [stage EXCEPT ![c] = "refresh"]
          /\ refreshCalls' = [refreshCalls EXCEPT ![c] = @ + 1]
          /\ getAccessToken(c, 0, 0)
          /\ status' = [status EXCEPT ![c] = st]
          /\ UNCHANGED <<lastRefill, dailyReset, concurrent, waitingQueue,
                         result, releases>>
     ELSE IF st = 204
     THEN \* lines 91-93, then the finally
          /\ tokens' = updateTokens(r)
          /\ dailyCount' = updateDailyCount(d)
          /\ result' = [result EXCEPT ![c] = "OK_EMPTY"]
          /\ concurrent' = releaseConcurrent
          /\ waitingQueue' = releaseQueue
          /\ pc' = releaseWake([pc EXCEPT ![c] = "done"])
          /\ releases' = [releases EXCEPT ![c] = @ + 1]
          /\ status' = [status EXCEPT ![c] = st]
          /\ UNCHANGED <<lastRefill, dailyReset, stage, refreshCalls,
                         authVars, tokenVars>>
     ELSE \* lines 87 and 95: the body is awaited
          /\ tokens' = updateTokens(r)
          /\ dailyCount' = updateDailyCount(d)
          /\ status' = [status EXCEPT ![c] = st]
          /\ pc' = [pc EXCEPT ![c] = "body"]
          /\ UNCHANGED <<lastRefill, dailyReset, concurrent, waitingQueue, stage,
                         result, refreshCalls, releases, authVars, tokenVars>>
  /\ UNCHANGED <<clockVars, responseVars, waitVars, syncs, observerVars, apiCalls, handoff>>

\* request() without the 204 branch: the body of every response is decoded
Response_DecodesNoContent(c, st, r, d) ==
  /\ handoff = 0
  /\ pc[c] = "fetching"
  /\ IF st = 401 /\ stage[c] = "first"
     THEN /\ tokens' = updateTokens(r)
          /\ dailyCount' = updateDailyCount(d)
          /\ stage' = [stage EXCEPT ![c] = "refresh"]
          /\ refreshCalls' = [refreshCalls EXCEPT ![c] = @ + 1]
          /\ getAccessToken(c, 0, 0)
          /\ status' = [status EXCEPT ![c] = st]
          /\ UNCHANGED <<lastRefill, dailyReset, concurrent, waitingQueue,
                         result, releases>>
     ELSE /\ tokens' = updateTokens(r)
          /\ dailyCount' = updateDailyCount(d)
          /\ status' = [status EXCEPT ![c] = st]
          /\ pc' = [pc EXCEPT ![c] = "body"]
          /\ UNCHANGED <<lastRefill, dailyReset, concurrent, waitingQueue, stage,
                         result, refreshCalls, releases, authVars, tokenVars>>
  /\ UNCHANGED <<clockVars, responseVars, waitVars, syncs, observerVars, apiCalls, handoff>>

\* request(), lines 77-93: a response with status st and rate-limit headers r, d
Response(c, st, r, d) ==
  /\ handoff = 0
  /\ pc[c] = "fetching"
  /\ IF st = 401 /\ stage[c] = "first"
     THEN \* lines 80-82: refreshToken()
          /\ tokens' = updateTokens(r)
          /\ dailyCount' = updateDailyCount(d)
          /\ stage' = [stage EXCEPT ![c] = "refresh"]
          /\ refreshCalls' = [refreshCalls EXCEPT ![c] = @ + 1]
          /\ getAccessToken(c, 0, 0)
          /\ status' = [status EXCEPT ![c] = st]
          /\ UNCHANGED <<lastRefill, dailyReset, concurrent, waitingQueue,
                         result, releases>>
     ELSE IF st = 204
     THEN \* lines 91-93, then the finally
          /\ tokens' = updateTokens(r)
          /\ dailyCount' = updateDailyCount(d)
          /\ result' = [result EXCEPT ![c] = "OK_EMPTY"]
          /\ concurrent' = releaseConcurrent
          /\ waitingQueue' = releaseQueue
          /\ pc' = releaseWake([pc EXCEPT ![c] = "done"])
          /\ releases' = [releases EXCEPT ![c] = @ + 1]
          /\ status' = [status EXCEPT ![c] = st]
          /\ UNCHANGED <<lastRefill, dailyReset, stage, refreshCalls,
                         authVars, tokenVars>>
     ELSE \* lines 87 and 95: the body is awaited
          /\ tokens' = updateTokens(r)
          /\ dailyCount' = updateDailyCount(d)
          /\ status' = [status EXCEPT ![c] = st]
          /\ pc' = [pc EXCEPT ![c] = "body"]
          /\ UNCHANGED <<lastRefill, dailyReset, concurrent, waitingQueue, stage,
                         result, refreshCalls, releases, authVars, tokenVars>>
  /\ UNCHANGED <<clockVars, responseVars, waitVars, syncs, observerVars, apiCalls, handoff>>

\* response.json(): the decoded body of a response. type is the kind of JSON
\* value; for an object, hasErrors says that it has a member `errors`, isArray
\* that this member is an array, and items lists, for each entry of the array,
\* whether it is null, an object with `detail`, one with `title` only, or one
\* with neither
MaxErrors == 2
JsonTypes == {"object", "array", "null", "string"}
ErrorItems == {"null", "detail", "title", "neither"}
Json(t) == [type |-> t, hasErrors |-> FALSE, isArray |-> FALSE, items |-> <<>>]
Document == Json("object")
ErrorsMember == [Document EXCEPT !.hasErrors = TRUE]
Envelope(es) == [ErrorsMember EXCEPT !.isArray = TRUE, !.items = es]
ErrorLists == UNION {[1..n -> ErrorItems] : n \in 0..MaxErrors}
BodyValues == {Json(t) : t \in JsonTypes} \cup {ErrorsMember}
                \cup {Envelope(es) : es \in ErrorLists}
\* the bodies the requests of the whole pipeline receive
RequestBodies == {Document, Envelope(<<"detail">>)}
\* the details an error carries: none, or the `errors` of the envelope
NoDetails == [present |-> FALSE, errors |-> <<>>]
ErrorDetails(es) == [present |-> TRUE, errors |-> es]

\* the typeof operator on a decoded body
typeOf(data) == IF data.type = "string" THEN "string" ELSE "object"

\* isErrorResponse(), json-api.ts lines 194-201
isErrorResponse(data) ==
  /\ typeOf(data) = "object"
  /\ data.type # "null"
  /\ data.hasErrors
  /\ data.isArray

\* extractErrorMessages(), lines 206-208: error.detail || error.title ||
\* 'Unknown error' for each entry; reading .detail of a null entry throws a
\* TypeError
extractErrorMessagesThrows(data) == \E i \in 1..Len(data.items) : data.items[i] = "null"
extractErrorMessages(data) ==
  [i \in 1..Len(data.items) |->
     CASE data.items[i] = "detail" -> "detail"
       [] data.items[i] = "title" -> "title"
       [] OTHER -> "Unknown error"]

\* request(), lines 86-121: a response that is not ok throws what
\* handleErrorResponse() makes of it; otherwise the body is decoded, an error
\* envelope throws VALIDATION_ERROR with the envelope's errors as details (a
\* TypeError, which classifyError() reports as INTERNAL_ERROR, when
\* extractErrorMessages() throws), and any other body is returned; the finally
\* block releases the slot
Body(c, data) ==
  /\ handoff = 0
  /\ pc[c] = "body"
  /\ status[c] \notin 200..299 => data = Document  \* decoded only when response.ok
  /\ result' = [result EXCEPT ![c] =
                  IF status[c] \in 200..299
                  THEN IF isErrorResponse(data)
                       THEN IF extractErrorMessagesThrows(data)
                            THEN "INTERNAL_ERROR"
                            ELSE "VALIDATION_ERROR"
                       ELSE "OK"
                  ELSE handleErrorResponse(status[c])]
  /\ details' = [details EXCEPT ![c] =
                   IF /\ status[c] \in 200..299
                      /\ isErrorResponse(data)
                      /\ ~extractErrorMessagesThrows(data)
                   THEN ErrorDetails(data.items)
                   ELSE NoDetails]
  /\ status' = [status EXCEPT ![c] = 0]
  /\ release(c, "done")
  /\ UNCHANGED <<clockVars, response, thrown, lastStatus, nearLimit, waitVars, syncs,
                 observerVars, authVars,
                 tokenVars, stage, apiCalls, refreshCalls, handoff>>

\* request(), line 83: refreshToken() returned, and request() is called again
\* with retryOnAuthError false; the call runs up to the first suspension of
\* its acquire(), before the finally of the first attempt
Handoff(c) ==
  /\ handoff = 0
  /\ pc[c] = "tokReady"
  /\ stage[c] = "refresh"
  /\ stage' = [stage EXCEPT ![c] = "retry"]
  /\ handoff' = c
  /\ status' = [status EXCEPT ![c] = 0]
  /\ AcquireEnter(c)
  /\ result' = [result EXCEPT ![c] =
                  IF pc'[c] = "rejected" THEN "RATE_LIMITED" ELSE @]
  /\ UNCHANGED <<clockVars, responseVars, syncs, authVars, tokenVars,
                 apiCalls, refreshCalls, releases>>

\* request(), lines 119-121: the finally of the first attempt, run as soon as
\* the retry's request() has returned its promise
HandoffRelease(c) ==
  /\ handoff = c
  /\ handoff' = 0
  /\ release(c, pc[c])
  /\ UNCHANGED <<clockVars, responseVars, waitVars, syncs, observerVars, authVars, tokenVars,
                 stage, status, result, apiCalls, refreshCalls>>

\* ------------------------------------------------------------ specifications

\* the constructors of RateLimiter and OAuthClient; no call made yet
Init ==
  /\ now = StartTime
  /\ ticks = 0
  /\ tokens = maxTokens
  /\ lastRefill = now
  /\ dailyCount = 0
  /\ dailyReset = getNextMidnight(now)
  /\ concurrent = 0
  /\ waitingQueue = <<>>
  /\ pc = [c \in Procs |-> "idle"]
  /\ wakeAt = [c \in Procs |-> 0]
  /\ retryAfter = [c \in Procs |-> 0]
  /\ syncs = 0
  /\ winStart = -1
  /\ winCount = 0
  /\ acquires = [c \in Procs |-> 0]
  /\ token = 0
  /\ tokenExpiresAt = 0
  /\ refreshPromise = 0
  /\ acq = <<>>
  /\ awaiting = [c \in Procs |-> 0]
  /\ tok = [c \in Procs |-> 0]
  /\ stage = [c \in Procs |-> "none"]
  /\ status = [c \in Procs |-> 0]
  /\ result = [c \in Procs |-> "none"]
  /\ apiCalls = [c \in Procs |-> 0]
  /\ refreshCalls = [c \in Procs |-> 0]
  /\ releases = [c \in Procs |-> 0]
  /\ handoff = 0
  /\ response = NoResponse
  /\ thrown = NoError
  /\ details = [c \in Procs |-> NoDetails]
  /\ lastStatus = NoStatus
  /\ nearLimit = NotAsked

\* the steps of the clock each specification takes
Deltas == {MinSleepMs, refillInterval - MinSleepMs, refillInterval}
AuthDeltas == {1000, 3299000}
RequestDeltas == {refillInterval}

\* RateLimiter on its own: callers of acquire() and release()
NextLimiter ==
  \/ \E c \in Procs : Acquire(c)
  \/ \E c \in Procs : ResumeSlot(c)
  \/ \E c \in Procs : ResumeSleep(c)
  \/ \E c \in Procs : Release(c)
  \/ ReleaseIdle
  \/ \E r \in HintValues, d \in HintValues : UpdateFromHeaders(r, d)
  \/ \E d \in Deltas : Tick(d, MaxTicks)

SpecLimiter == Init /\ [][NextLimiter]_vars

\* Callers that call again, for runs without end. A caller whose acquire() was
\* rejected, or that has released its slot, makes its next call; the observer
\* counts per call.
Again(c) ==
  /\ pc[c] \in {"released", "rejected"}
  /\ pc' = [pc EXCEPT ![c] = "idle"]
  /\ acquires' = [acquires EXCEPT ![c] = 0]
  /\ releases' = [releases EXCEPT ![c] = 0]
  /\ retryAfter' = [retryAfter EXCEPT ![c] = 0]
  /\ UNCHANGED <<clockVars, responseVars, limiterVars, wakeAt, syncs, winStart, winCount,
                 authVars, tokenVars, stage, status, result, apiCalls, refreshCalls,
                 handoff>>

\* The clock of a run without end advances a day at a time, and every instant
\* the limiter keeps is then written relative to the new day: `now` keeps its
\* value and lastRefill, dailyReset and the sleepers' wakeAt move a day back.
\* An instant already a day or more behind stays where it is: refillTokens()
\* and the sleep loop treat it the same (the bucket is full again, the daily
\* count is reset, the sleeper is due, and DayMs is a multiple of
\* refillInterval).
Rebase(t) == IF t <= now - DayMs THEN t ELSE t - DayMs
TickDay ==
  /\ \A c \in Procs : ~Ready(c)
  /\ lastRefill' = Rebase(lastRefill)
  /\ dailyReset' = Rebase(dailyReset)
  /\ wakeAt' = [c \in Procs |-> IF pc[c] = "sleep" THEN Rebase(wakeAt[c]) ELSE wakeAt[c]]
  /\ UNCHANGED <<clockVars, responseVars, tokens, dailyCount, concurrent, waitingQueue, pc,
                 retryAfter, syncs, observerVars, authVars, tokenVars, requestVars>>

\* the limiter under callers that call again and again: one more caller than
\* there are slots
LiveCallers == 1..(maxConcurrent + 1)
NextLive ==
  \/ \E c \in LiveCallers : Acquire(c)
  \/ \E c \in LiveCallers : ResumeSlot(c)
  \/ \E c \in LiveCallers : ResumeSleep(c)
  \/ \E c \in LiveCallers : Release(c)
  \/ \E c \in LiveCallers : Again(c)
  \/ TickDay
\* A resolved promise's continuation runs, a timer that is due fires, every
\* admitted caller calls release(), and the clock advances; nothing obliges a
\* caller to call again.
FairLive ==
  /\ \A c \in LiveCallers : WF_vars(ResumeSlot(c))
  /\ \A c \in LiveCallers : WF_vars(ResumeSleep(c))
  /\ \A c \in LiveCallers : WF_vars(Release(c))
  /\ WF_vars(TickDay)
SpecLive == Init /\ [][NextLive]_vars /\ FairLive

\* the limiter and the callers of getStatus()
StatusCallers == {1}
NextStatus ==
  \/ \E c \in StatusCallers : Acquire(c)
  \/ \E c \in StatusCallers : ResumeSleep(c)
  \/ \E c \in StatusCallers : Release(c)
  \/ \E r \in HintValues : UpdateFromHeaders(r, NoHeader)
  \/ \E d \in Deltas : Tick(d, MaxTicks)
  \/ GetStatus
  \/ IsNearLimit
SpecStatus == Init /\ [][NextStatus]_vars

\* The shipped limiter asked isNearLimit(). It starts with no call in flight,
\* in any of the states around the two low-water marks: the tokens left within
\* NearSpan of NearTokens, the calls left today within NearSpan of NearDaily,
\* and the states of a fresh limiter and of one that has admitted
\* TestAdmissions calls.
NearSpan == 2
NearTokenInputs ==
  {ShippedMaxTokens, ShippedMaxTokens - TestAdmissions}
    \cup {t \in (NearTokens - NearSpan)..(NearTokens + NearSpan) : t >= 0}
NearDailyInputs ==
  {0, TestAdmissions}
    \cup {ShippedDailyLimit - r : r \in (NearDaily - NearSpan)..(NearDaily + NearSpan)}
InitNear ==
  /\ now = StartTime
  /\ ticks = 0
  /\ tokens \in NearTokenInputs
  /\ lastRefill = now
  /\ dailyCount \in NearDailyInputs
  /\ dailyReset = getNextMidnight(now)
  /\ concurrent = 0
  /\ waitingQueue = <<>>
  /\ pc = [c \in Procs |-> "idle"]
  /\ wakeAt = [c \in Procs |-> 0]
  /\ retryAfter = [c \in Procs |-> 0]
  /\ syncs = 0
  /\ winStart = -1
  /\ winCount = 0
  /\ acquires = [c \in Procs |-> 0]
  /\ token = 0
  /\ tokenExpiresAt = 0
  /\ refreshPromise = 0
  /\ acq = <<>>
  /\ awaiting = [c \in Procs |-> 0]
  /\ tok = [c \in Procs |-> 0]
  /\ stage = [c \in Procs |-> "none"]
  /\ status = [c \in Procs |-> 0]
  /\ result = [c \in Procs |-> "none"]
  /\ apiCalls = [c \in Procs |-> 0]
  /\ refreshCalls = [c \in Procs |-> 0]
  /\ releases = [c \in Procs |-> 0]
  /\ handoff = 0
  /\ response = NoResponse
  /\ thrown = NoError
  /\ details = [c \in Procs |-> NoDetails]
  /\ lastStatus = NoStatus
  /\ nearLimit = NotAsked
NextNear ==
  \/ ShippedIsNearLimit
  \/ \E d \in Deltas : Tick(d, MaxTicks)
SpecNear == InitNear /\ [][NextNear]_vars

\* the limiter watched by an observer of one window
NextWindow == NextLimiter \/ StartWindow

SpecWindow == Init /\ [][NextWindow]_vars

\* the limiter and the headers it is handed
HeaderCallers == {1, 2}
NextHeaders ==
  \/ \E c \in HeaderCallers : Acquire(c)
  \/ \E c \in HeaderCallers : Release(c)
  \/ UpdateFromHeaderText

SpecHeaders == Init /\ [][NextHeaders]_vars

\* handleErrorResponse() on its own
NextErrors == HandleErrorResponse

SpecErrors == Init /\ [][NextErrors]_vars

\* OAuthClient on its own: callers of getAccessToken() and refreshToken()
NextOAuth ==
  \/ \E c \in Procs : GetAccessToken(c)
  \/ \E c \in Procs : RefreshToken(c)
  \/ \E k \in 1..MaxAcq, ok \in BOOLEAN, e \in ShortExpiresInValues : TokenEndpoint(k, ok, e)
  \/ \E c \in Procs : OwnerResume(c)
  \/ \E c \in Procs : JoinerResume(c)
  \/ \E d \in AuthDeltas : Tick(d, MaxTicks)

SpecOAuth == Init /\ [][NextOAuth]_vars

\* OAuthClient with its credential slot also cleared from outside: two callers
\* of getAccessToken() and refreshToken(), and clearToken() at any moment
SlotCallers == {1, 2}
NextSlot ==
  \/ \E c \in SlotCallers : GetAccessToken(c)
  \/ \E c \in SlotCallers : RefreshToken(c)
  \/ ClearToken
  \/ \E k \in 1..MaxAcq, ok \in BOOLEAN, e \in ShortExpiresInValues : TokenEndpoint(k, ok, e)
  \/ \E c \in SlotCallers : OwnerResume(c)
  \/ \E c \in SlotCallers : JoinerResume(c)
  \/ \E d \in AuthDeltas : Tick(d, MaxTicks)

SpecSlot == Init /\ [][NextSlot]_vars

\* PrimeClient: callers of request()
NextRequest ==
  \/ \E c \in Procs : Request(c)
  \/ \E c \in Procs : ResumeSlot(c)
  \/ \E c \in Procs : ResumeSleep(c)
  \/ \E c \in Procs : ReqGetToken(c)
  \/ \E k \in 1..MaxAcq, ok \in BOOLEAN, e \in ExpiresInValues : TokenEndpoint(k, ok, e)
  \/ \E c \in Procs : OwnerResume(c)
  \/ \E c \in Procs : JoinerResume(c)
  \/ \E c \in Procs : ReqFetch(c)
  \/ \E c \in Procs : ReqTokenFail(c)
  \/ \E c \in Procs : TransportFailure(c)
  \/ \E c \in Procs, st \in Statuses, h \in ResponseHints :
       Response(c, st, h[1], h[2])
  \/ \E c \in Procs, data \in RequestBodies : Body(c, data)
  \/ \E c \in Procs : Handoff(c)
  \/ \E c \in Procs : HandoffRelease(c)
  \/ \E d \in RequestDeltas : Tick(d, ReqTicks)

Next == NextRequest

Spec == Init /\ [][Next]_vars

\* PrimeClient: one call of request(), its responses of any status
OneCaller == {1}
ResponseStatuses == 200..599
NextOutcomes ==
  \/ \E c \in OneCaller : Request(c)
  \/ \E c \in OneCaller : ReqGetToken(c)
  \/ \E k \in 1..MaxAcq, ok \in BOOLEAN, e \in ExpiresInValues : TokenEndpoint(k, ok, e)
  \/ \E c \in OneCaller : OwnerResume(c)
  \/ \E c \in OneCaller : ReqFetch(c)
  \/ \E c \in OneCaller : ReqTokenFail(c)
  \/ \E c \in OneCaller : TransportFailure(c)
  \/ \E c \in OneCaller, st \in ResponseStatuses, h \in ResponseHints :
       Response(c, st, h[1], h[2])
  \/ \E c \in OneCaller, data \in BodyValues : Body(c, data)
  \/ \E c \in OneCaller : Handoff(c)
  \/ \E c \in OneCaller : HandoffRelease(c)
  \/ \E d \in RequestDeltas : Tick(d, ReqTicks)

SpecOutcomes == Init /\ [][NextOutcomes]_vars

\* ------------------------------------------------------------------ claims

\* a caller suspended on the slot queue: queued, or resolved and not yet resumed
SlotSuspended(c) == pc[c] \in {"slotWait", "woken"}
\* the step in which acquire() admits caller c
AdmittedNow(c) == pc[c] # "admitted" /\ pc'[c] = "admitted"
\* the step in which acquire() throws RateLimitError at caller c
RejectedNow(c) == pc[c] # "rejected" /\ pc'[c] = "rejected"
\* the step in which caller c enters acquire()
EntersAcquire(c) ==
  \/ pc[c] = "idle" /\ pc'[c] # "idle"
  \/ pc[c] = "tokReady" /\ stage[c] = "refresh" /\ stage'[c] = "retry"
\* the step in which getAccessToken() hands caller c a token
ReturnsToken(c) == pc[c] # "tokReady" /\ pc'[c] = "tokReady"
\* caller c's request() has returned or thrown, its finally included
Finished(c) == pc[c] \in {"done", "rejected"} /\ handoff # c
\* slots held: admissions not yet released, over callers 1..n
RECURSIVE Held(_)
Held(n) == IF n = 0 THEN 0 ELSE acquires[n] - releases[n] + Held(n - 1)

\* C1: under any interleaving of acquire(), release(), refills and header
\* syncs, concurrent never exceeds maxConcurrent and never goes below 0.
C1_ConcurrentWithinCeiling == concurrent >= 0 /\ concurrent <= maxConcurrent

\* C2: the daily allowance is never over-admitted: dailyCount never exceeds
\* dailyLimit, that is dailyRemaining stays within [0, dailyLimit].
C2_DailyNeverOverAdmitted ==
  /\ dailyCount <= dailyLimit
  /\ dailyLimit - dailyCount \in 0..dailyLimit

\* C3: slot admission is FIFO: no caller is admitted while a caller that was
\* suspended on the slot queue before it arrived is still suspended, and the
\* queue keeps its waiters in the order of their suspension.
C3_FifoAdmission ==
  [][ /\ \A c \in Procs : AdmittedNow(c) =>
           \A d \in Procs : d < c => ~SlotSuspended(d)
      /\ \A i, j \in 1..Len(waitingQueue') :
           i < j => waitingQueue'[i] < waitingQueue'[j] ]_vars

\* C4: the 401 retry runs under the slot of the first attempt: acquire() admits
\* a logical call once (one token, one daily unit, one slot), and the slot is
\* not released before the retried call has finished.
C4_RetryUnderFirstSlot ==
  \A c \in Procs :
    /\ acquires[c] <= 1
    /\ stage[c] = "retry" /\ pc[c] # "done" => releases[c] = 0

\* C5: a request() whose first response is 401 and whose forced refresh
\* succeeds calls refreshToken() exactly once and issues exactly one further
\* API call; there is never a third API call or a second refresh.
C5_OneRefreshOneRetry ==
  \A c \in Procs :
    /\ refreshCalls[c] <= 1
    /\ apiCalls[c] <= 2
    /\ stage[c] = "retry" /\ Finished(c) => refreshCalls[c] = 1 /\ apiCalls[c] = 2

\* C6: every request() whose acquire() succeeded calls release() exactly once,
\* on every exit path, and one whose acquire() threw calls it zero times; so
\* concurrent counts the slots held, and is 0 when no request() is in progress.
C6_ReleaseOncePerAcquire ==
  /\ \A c \in Procs :
       /\ releases[c] <= acquires[c]
       /\ stage[c] \in {"first", "refresh"} /\ pc[c] # "done" => releases[c] = 0
       /\ stage[c] = "retry" /\ pc[c] # "done" =>
            releases[c] = IF handoff = c THEN 0 ELSE 1
       /\ Finished(c) => releases[c] = acquires[c]
  /\ concurrent = Held(NProcs)
  /\ (handoff = 0 /\ \A c \in Procs : pc[c] \in {"idle", "done", "rejected"})
       => concurrent = 0
\* a call that went through the 401 retry has finished
C6_Witness ==
  \E c \in Procs : pc[c] = "done" /\ stage[c] = "retry" /\ releases[c] = 2

\* C7: at most one token acquisition is in flight; a call made while one is in
\* flight issues no request of its own and receives that acquisition's result,
\* so calls that share an acquisition cause one request and get one token.
InFlight == {k \in 1..Len(acq) : acq[k].st = "pending"}
C7_SingleAcquisitionInFlight ==
  [][ /\ Cardinality(InFlight') <= 1
      /\ InFlight' # {} => refreshPromise' \in InFlight'
      /\ \A c \in Procs :
           /\ (pc[c] = "idle" /\ pc'[c] # "idle" /\ InFlight # {}) =>
                /\ Len(acq') = Len(acq)
                /\ pc'[c] = "tokJoin"
                /\ awaiting'[c] \in InFlight
           /\ (pc[c] \in {"tokOwn", "tokJoin"} /\ pc'[c] = "tokReady") =>
                tok'[c] = awaiting[c] ]_vars
\* a caller that shared the acquisition holds its token while the caller that
\* started it has not resumed yet
C7_Witness ==
  \E c, d \in Procs :
    /\ pc[c] = "tokOwn"
    /\ pc[d] = "tokReady"
    /\ tok[d] = awaiting[c]
    /\ Len(acq) = 1

\* C8, as the spec states it: every token getAccessToken() returns is, when it
\* is returned, more than REFRESH_BUFFER_MS before its expiry.
C8_EveryTokenBufferValid ==
  [][ \A c \in Procs : ReturnsToken(c) =>
        now < acq'[tok'[c]].exp - REFRESH_BUFFER_MS ]_vars
\* C8, amended: a token returned from the cache is more than REFRESH_BUFFER_MS
\* before its expiry; a token returned by an acquisition (own or shared) has
\* the whole lifetime the endpoint reported, whatever that is, so it is that
\* far from expiry exactly when expires_in exceeds the buffer.
C8_CachedTokenBufferValid ==
  [][ \A c \in Procs : ReturnsToken(c) =>
        IF pc[c] \in {"tokOwn", "tokJoin"}
        THEN /\ acq'[tok'[c]].exp = now + acq'[tok'[c]].ein * 1000
             /\ now < acq'[tok'[c]].exp - REFRESH_BUFFER_MS
                  <=> acq'[tok'[c]].ein * 1000 > REFRESH_BUFFER_MS
        ELSE now < acq'[tok'[c]].exp - REFRESH_BUFFER_MS ]_vars
\* a token served from the cache after the clock has moved
C8_Witness ==
  \E c \in Procs :
    /\ pc[c] = "tokReady"
    /\ tok[c] # 0
    /\ acq[tok[c]].exp - acq[tok[c]].ein * 1000 < now
    /\ refreshCalls[c] = 0

\* C9: in any window of one refill interval, wherever it starts, at most
\* maxTokens callers are admitted.
C9_RollingMinuteQuota == winCount <= maxTokens

\* C10: when the daily allowance is exhausted once refillTokens() has applied
\* a due reset, acquire() throws at once (it never suspends first) with
\* retryAfter the seconds, rounded up, until dailyReset; it charges nothing
\* (tokens and dailyCount stay as refillTokens() left them, concurrent and the
\* queue as they were); request() then makes no token or API call and no
\* release().
C10_DailyExhaustedRejects ==
  [][ \A c \in Procs :
        /\ (EntersAcquire(c) /\ refillDailyCount >= dailyLimit) => RejectedNow(c)
        /\ RejectedNow(c) =>
             /\ EntersAcquire(c)
             /\ refillDailyCount >= dailyLimit
             /\ retryAfter'[c] * 1000 >= dailyReset' - now
             /\ (retryAfter'[c] - 1) * 1000 < dailyReset' - now
             /\ tokens' = refillTokensValue
             /\ dailyCount' = refillDailyCount
             /\ concurrent' = concurrent
             /\ waitingQueue' = waitingQueue
             /\ acquires' = acquires
             /\ apiCalls' = apiCalls /\ acq' = acq /\ releases' = releases
             /\ result'[c] = "RATE_LIMITED"
        /\ pc[c] = "rejected" =>
             /\ pc'[c] = "rejected"
             /\ apiCalls'[c] = apiCalls[c]
             /\ acquires'[c] = acquires[c]
             /\ handoff # c => releases'[c] = releases[c] ]_vars
\* a first attempt rejected by the daily limit
C10_Witness ==
  \E c \in Procs :
    /\ pc[c] = "rejected"
    /\ stage[c] = "first"
    /\ retryAfter[c] > 0
    /\ apiCalls[c] = 0 /\ releases[c] = 0

\* the step in which a sleeper's timer has fired and it tests the loop again
SleepCheck(c) == pc[c] = "sleep" /\ (pc'[c] # "sleep" \/ wakeAt'[c] # wakeAt[c])
\* the refill instant lastRefill + refillInterval has been reached
RefillDue == now - lastRefill >= refillInterval

ReleaseStep == \E d \in Procs : releases'[d] = releases[d] + 1

\* C12: a caller that enters acquire() while concurrent has reached
\* maxConcurrent (and is not rejected by the daily limit) is suspended on the
\* slot queue; it leaves the queue only when a release() made after its
\* arrival resolves it, and it is never admitted while still queued.
C12_SuspendedUntilRelease ==
  [][ \A c \in Procs :
        /\ (EntersAcquire(c) /\ concurrent >= maxConcurrent /\ ~RejectedNow(c)) =>
             /\ pc'[c] = "slotWait"
             /\ waitingQueue' = Append(waitingQueue, c)
             /\ concurrent' = concurrent
        /\ pc[c] = "slotWait" =>
             /\ pc'[c] \in {"slotWait", "woken"}
             /\ pc'[c] = "woken" =>
                  /\ ReleaseStep
                  /\ waitingQueue # <<>> /\ Head(waitingQueue) = c
                  /\ concurrent' = concurrent - 1 ]_vars
\* a caller that was suspended at the ceiling has been resolved by a release()
C12_Witness ==
  \E c, d \in Procs :
    /\ pc[c] = "woken"
    /\ releases[d] = 1
    /\ concurrent = maxConcurrent - 1

\* a text that is an integer in decimal notation, and the integer it denotes
IsIntegerText(s) ==
  /\ s # <<>>
  /\ LET u == IF Head(s) = "-" THEN Tail(s) ELSE s
     IN  u # <<>> /\ \A i \in 1..Len(u) : IsDigit(u[i])
RECURSIVE DecimalValue(_)
DecimalValue(u) ==
  IF u = <<>> THEN 0
  ELSE 10 * DecimalValue(SubSeq(u, 1, Len(u) - 1)) + DigitValue(u[Len(u)])
IntegerOf(s) == IF Head(s) = "-" THEN -DecimalValue(Tail(s)) ELSE DecimalValue(s)
\* a header that is absent, or whose text does not begin with a number
NotANumber(h) ==
  \/ ~h.present
  \/ LET s == h.text
         u == IF s # <<>> /\ Head(s) \in {"-", "+"} THEN Tail(s) ELSE s
     IN  u = <<>> \/ ~IsDigit(Head(u))

C14_RetryAfterDefault ==
  thrown.code = "RATE_LIMITED" =>
    LET h == response.retry
    IN  IF h.present /\ IsIntegerText(h.text)
        THEN thrown.retryAfter = Number(IntegerOf(h.text))
        ELSE thrown.retryAfter = Number(60)

\* C15: every response status in 500..599 is classified SERVER_ERROR, the
\* error carrying that status.
C15_Every5xxServerError ==
  response.status \in 500..599 =>
    thrown.code = "SERVER_ERROR" /\ thrown.status = response.status

\* the classification the error table gives the statuses it names
TableClass(st) ==
  CASE st = 403 -> "FORBIDDEN"
    [] st = 404 -> "NOT_FOUND"
    [] st = 422 -> "VALIDATION_ERROR"
    [] st = 429 -> "RATE_LIMITED"

\* C16: only a 401 is retried. refreshToken() is called only for a first
\* response of status 401; a first response of any other status that is not ok,
\* and a transport failure, end the call after its one API call, with no
\* refresh and with the classification of the table; a finished call does
\* nothing more.
C16_OnlyUnauthorizedRetried ==
  [][ \A c \in Procs :
        /\ refreshCalls'[c] # refreshCalls[c] =>
             stage[c] = "first" /\ pc[c] = "fetching" /\ status'[c] = 401
        /\ apiCalls'[c] # apiCalls[c] =>
             \/ stage[c] = "first" /\ apiCalls[c] = 0
             \/ stage[c] = "retry" /\ apiCalls[c] = 1 /\ refreshCalls[c] = 1
        /\ (stage[c] = "first" /\ pc[c] = "body" /\ pc'[c] # "body"
              /\ status[c] \notin 200..299) =>
             /\ status[c] # 401
             /\ pc'[c] = "done" /\ stage'[c] = "first"
             /\ apiCalls'[c] = 1 /\ refreshCalls'[c] = 0
             /\ result'[c] \notin {"OK", "OK_EMPTY"}
             /\ status[c] \in {403, 404, 422, 429} => result'[c] = TableClass(status[c])
        /\ (stage[c] = "first" /\ pc[c] = "fetching" /\ pc'[c] = "done"
              /\ result'[c] # "OK_EMPTY") =>
             /\ result'[c] = "NETWORK_ERROR"
             /\ apiCalls'[c] = 1 /\ refreshCalls'[c] = 0
        /\ (pc[c] = "done" /\ handoff # c) =>
             /\ pc'[c] = "done"
             /\ apiCalls'[c] = apiCalls[c] /\ refreshCalls'[c] = refreshCalls[c] ]_vars
\* a call ended by a first response of status 403
C16_Witness ==
  \E c \in Procs :
    /\ pc[c] = "done"
    /\ stage[c] = "first"
    /\ result[c] = "FORBIDDEN"
    /\ apiCalls[c] = 1
    /\ refreshCalls[c] = 0


\* an error envelope as the claim describes it: an object with an `errors` array
IsEnvelope(data) == data.type = "object" /\ data.hasErrors /\ data.isArray

\* C17: when request() decodes the body of a 2xx response and the body is an
\* error envelope, the call throws VALIDATION_ERROR with the envelope's errors
\* as details, and its finally block releases the slot.
C17_EnvelopeIsValidationError ==
  [][ \A c \in Procs, data \in BodyValues :
        (status[c] \in 200..299 /\ IsEnvelope(data) /\ Body(c, data)) =>
          /\ result'[c] = "VALIDATION_ERROR"
          /\ details'[c] = ErrorDetails(data.items)
          /\ releases'[c] = releases[c] + 1
          /\ concurrent' = concurrent - 1 ]_vars


\* a call of getStatus() that is not the first, and what it has in common with
\* the call before
RepeatedStatus == lastStatus.calls > 0 /\ lastStatus'.calls = lastStatus.calls + 1
SameCounters ==
  /\ lastStatus'.tokensRemaining = lastStatus.tokensRemaining
  /\ lastStatus'.dailyRemaining = lastStatus.dailyRemaining
  /\ lastStatus'.concurrentActive = lastStatus.concurrentActive
\* no caller has called acquire() since the call before
NoAcquireCallSince == \A c \in Procs : lastStatus.pc[c] = "idle" => pc[c] = "idle"
\* the call falls in the refill interval, the day and the minute of the clock
\* of the call before
SameMinute ==
  /\ now < lastStatus.nextRefill
  /\ now < lastStatus.dailyReset
  /\ Floor(now, refillInterval) = Floor(lastStatus.at, refillInterval)

\* C18 as stated: a call of getStatus() in the same minute as the call before,
\* with no call of acquire() between the two, returns the same tokensRemaining,
\* dailyRemaining and concurrentActive.
C18_StatusIdempotent ==
  [][ (RepeatedStatus /\ NoAcquireCallSince /\ SameMinute) => SameCounters ]_vars

\* C18, amended: a call of getStatus() made before the nextRefill and the
\* dailyReset that the call before reported, with no step of acquire(), no
\* release() and no updateFromHeaders() between the two, returns the same
\* tokensRemaining, dailyRemaining and concurrentActive.
C18_StatusIdempotentWhenQuiet ==
  [][ (RepeatedStatus /\ Quiet /\ now < lastStatus.nextRefill
         /\ now < lastStatus.dailyReset) => SameCounters ]_vars
\* a second call some time after the first, nothing having happened between
\* them, while a slot is held and the bucket is not full
C18_Witness ==
  /\ lastStatus.calls = 2
  /\ lastStatus.quiet
  /\ lastStatus.at > lastStatus.since
  /\ lastStatus.tokensRemaining < maxTokens
  /\ lastStatus.concurrentActive > 0


\* the step is caller c's own and leaves it suspended in acquire(): queued for
\* a slot, or put to sleep for the refill
Suspends(c) ==
  /\ pc[c] \in {"idle", "woken", "sleep"}
  /\ pc'[c] \in {"slotWait", "sleep"}
  /\ pc'[c] # pc[c] \/ wakeAt'[c] # wakeAt[c]
\* the step is the one that admits caller c
Admits(c) == pc[c] \in {"idle", "woken", "sleep"} /\ pc'[c] = "admitted"
\* tokens and dailyCount as the step of caller c finds them after the
\* refillTokens() it may start with (a caller woken from the queue calls none)
TokensBefore(c) == IF pc[c] = "woken" THEN tokens ELSE refillTokensValue
DailyBefore(c) == IF pc[c] = "woken" THEN dailyCount ELSE refillDailyCount

\* C20: a caller suspended in acquire() has charged nothing. A step that leaves
\* its caller suspended takes no token, no daily unit and no slot (it changes
\* tokens and dailyCount only as refillTokens() does); a suspended caller has
\* no admission to its name; the three counters are charged in one step, the
\* one that admits a caller, and no other step of acquire() takes any of them.
C20_ChargedOnlyAtAdmission ==
  [][ /\ \A c \in Procs :
           /\ Suspends(c) =>
                /\ tokens' = TokensBefore(c)
                /\ dailyCount' = DailyBefore(c)
                /\ concurrent' = concurrent
                /\ acquires' = acquires
           /\ pc[c] \in {"slotWait", "woken", "sleep"} => acquires[c] = 0
           /\ Admits(c) =>
                /\ tokens' = TokensBefore(c) - 1
                /\ dailyCount' = DailyBefore(c) + 1
                /\ concurrent' = concurrent + 1
                /\ acquires' = [acquires EXCEPT ![c] = @ + 1]
      /\ (concurrent' > concurrent \/ acquires' # acquires) =>
           \E c \in Procs : Admits(c)
      /\ (syncs' = syncs /\ (tokens' < tokens \/ dailyCount' > dailyCount)) =>
           \E c \in Procs : Admits(c) ]_vars
\* one caller sleeps for the refill and another is queued for a slot, neither
\* admitted, while the counters show the two admissions made so far
C20_Witness ==
  \E c, d \in Procs :
    /\ pc[c] = "sleep" /\ pc[d] = "slotWait"
    /\ acquires[c] = 0 /\ acquires[d] = 0
    /\ tokens = 0
    /\ dailyCount = 2
    /\ concurrent = 1


\* caller c is suspended in acquire(): queued for a slot (woken or not), or
\* asleep until the refill
Suspended(c) == pc[c] \in {"slotWait", "woken", "sleep"}

\* C19: as long as the daily quota is never exhausted, every caller suspended
\* in acquire() is eventually admitted (under the fairness of SpecLive: the
\* admitted callers release, the continuations and timers run, the clock
\* advances).
C19_EverySuspendedAdmitted ==
  [](dailyCount < dailyLimit) =>
    \A c \in LiveCallers : (Suspended(c) ~> pc[c] = "admitted")


\* the step zeroes or lowers the daily counter by itself (no header sync)
DailyWiped == dailyCount' < dailyCount /\ syncs' = syncs

\* C21: the daily reset fires once per boundary. The daily counter is wiped
\* only by a call made at or after dailyReset, and that call moves dailyReset
\* to the first midnight after now; before dailyReset no call of getStatus(),
\* acquire() or isNearLimit() moves dailyReset or wipes the counter.
C21_DailyResetOncePerBoundary ==
  [][ /\ DailyWiped =>
           /\ now >= dailyReset
           /\ dailyCount' <= 1
      /\ dailyReset' # dailyReset =>
           /\ now >= dailyReset
           /\ dailyReset' % DayMs = 0
           /\ dailyReset' - DayMs <= now /\ now < dailyReset'
      /\ now < dailyReset =>
           /\ dailyReset' = dailyReset
           /\ syncs' = syncs => dailyCount' >= dailyCount ]_vars
\* after the midnight, with the reset done: two calls of getStatus() and one of
\* isNearLimit() have run, and the admission made since the reset still counts
C21_Witness ==
  /\ now >= DayMs
  /\ dailyReset = 2 * DayMs
  /\ dailyCount = 1
  /\ syncs = 0
  /\ lastStatus.calls = 2
  /\ lastStatus.since >= DayMs
  /\ lastStatus.dailyRemaining = dailyLimit - 1
  /\ nearLimit.called


\* the whole refill intervals elapsed since lastRefill
MissedRefills == (now - lastRefill) \div refillInterval
\* the step is a call of acquire() by caller c, or the end of its sleep: both
\* run refillTokens()
RunsRefill(c) ==
  /\ pc[c] \in {"idle", "sleep"}
  /\ pc'[c] # pc[c] \/ wakeAt'[c] # wakeAt[c]

\* C22: the refill over idle gaps. tokens stays within 0..maxTokens; when k >= 1
\* whole intervals have elapsed, a call that runs refillTokens() sets tokens to
\* min(maxTokens, tokens + k * maxTokens) (less the token of the admission it
\* may end with) and moves lastRefill forward by k intervals, which leaves
\* 0 <= now - lastRefill < refillInterval; when less than an interval has
\* elapsed the call leaves lastRefill alone and adds no token.
C22_RefillCapped ==
  [][ /\ 0 <= tokens /\ tokens <= maxTokens
      /\ 0 <= tokens' /\ tokens' <= maxTokens
      /\ \A c \in Procs : RunsRefill(c) =>
           /\ 0 <= now - lastRefill' /\ now - lastRefill' < refillInterval
           /\ lastRefill' = lastRefill + MissedRefills * refillInterval
           /\ LET k == MissedRefills
                  filled == IF k >= 1 THEN Min(maxTokens, tokens + k * maxTokens)
                            ELSE tokens
              IN  tokens' = IF pc'[c] = "admitted" THEN filled - 1 ELSE filled
      /\ lastRefill' # lastRefill => MissedRefills >= 1 ]_vars
\* one call of acquire(), made two intervals after construction with the bucket
\* full, has refilled to the cap and taken its token
C22_Witness ==
  /\ pc[1] = "admitted"
  /\ \A c \in Procs \ {1} : pc[c] = "idle"
  /\ syncs = 0
  /\ now = StartTime + 2 * refillInterval
  /\ lastRefill = now
  /\ tokens = maxTokens - 1


\* the step is a call of getStatus()
StatusCall == lastStatus'.calls = lastStatus.calls + 1

CallsGetAccessToken(c) ==
  pc[c] = "idle" /\ pc'[c] # "idle" /\ refreshCalls'[c] = refreshCalls[c]
\* the cached token is valid for the cache test
CacheValid == token # 0 /\ now < tokenExpiresAt - REFRESH_BUFFER_MS

\* C24: getAccessToken() returns the cached token at once, with no request to
\* the token endpoint, exactly when no acquisition is in flight, a token is
\* cached and now < tokenExpiresAt - 5 min; with no valid token it starts an
\* acquisition, or shares the one in flight. tokenExpiresAt is the time of the
\* acquisition plus expires_in, so a token issued with expires_in = 1 is never
\* returned from the cache.
C24_CachedExactlyWhenValid ==
  [][ /\ \A c \in Procs : CallsGetAccessToken(c) =>
           /\ pc'[c] = "tokReady" <=> (CacheValid /\ refreshPromise = 0)
           /\ pc'[c] = "tokReady" =>
                /\ tok'[c] = token
                /\ acq' = acq
                /\ acq[token].ein # 1
           /\ (~CacheValid /\ refreshPromise = 0) =>
                /\ pc'[c] = "tokOwn"
                /\ Len(acq') = Len(acq) + 1
                /\ acq'[Len(acq')].st = "pending"
                /\ refreshPromise' = Len(acq')
           /\ refreshPromise # 0 =>
                /\ pc'[c] = "tokJoin"
                /\ awaiting'[c] = refreshPromise
                /\ acq' = acq
                /\ CacheValid => token = refreshPromise
      /\ \A k \in 1..Len(acq) :
           (acq[k].st = "pending" /\ acq'[k].st = "resolved") =>
             /\ token' = k
             /\ tokenExpiresAt' = now + acq'[k].ein * 1000 ]_vars
\* a token issued with expires_in = 1 is cached, more than a second and the
\* buffer have passed, and a call of getAccessToken() has started the second
\* acquisition
C24_Witness ==
  \E c \in Procs :
    /\ pc[c] = "tokOwn"
    /\ refreshCalls[c] = 0
    /\ Len(acq) = 2
    /\ awaiting[c] = 2
    /\ acq[1].st = "resolved" /\ acq[1].ein = 1
    /\ token = 1
    /\ now >= acq[1].exp + REFRESH_BUFFER_MS


\* the step is a call of refreshToken() by caller c
CallsRefreshToken(c) == refreshCalls'[c] = refreshCalls[c] + 1
\* the step is the return of caller c's call with a token
ReturnsFromEndpoint(c) == pc[c] \in {"tokOwn", "tokJoin"} /\ pc'[c] = "tokReady"

\* C25: refreshToken() discards the cached credential and returns a token of
\* the token endpoint. The call leaves token absent and tokenExpiresAt 0, never
\* returns at once from the cache, starts an acquisition unless one is in
\* flight, and returns what the acquisition it awaits has delivered; the cache
\* is only ever filled with the token of the acquisition that resolves in that
\* step, so a discarded token is not served from it again.
C25_RefreshDiscardsCache ==
  [][ /\ \A c \in Procs : CallsRefreshToken(c) =>
           /\ token' = 0 /\ tokenExpiresAt' = 0
           /\ pc'[c] \in {"tokOwn", "tokJoin"}
           /\ refreshPromise = 0 =>
                /\ pc'[c] = "tokOwn"
                /\ Len(acq') = Len(acq) + 1
                /\ acq'[Len(acq')].st = "pending"
                /\ awaiting'[c] = Len(acq')
           /\ refreshPromise # 0 => awaiting'[c] = refreshPromise /\ acq' = acq
      /\ \A c \in Procs : (ReturnsFromEndpoint(c) /\ refreshCalls[c] = 1) =>
           /\ acq[awaiting[c]].st = "resolved"
           /\ tok'[c] = awaiting[c]
      /\ token' # token =>
           \/ token' = 0
           \/ /\ token' \in 1..Len(acq)
              /\ acq[token'].st = "pending" /\ acq'[token'].st = "resolved"
      /\ \A c \in Procs : (CallsGetAccessToken(c) /\ pc'[c] = "tokReady") =>
           tok'[c] = token /\ token' = token ]_vars
\* refreshToken() was called while a token good for an hour was cached, and has
\* returned the token of the second acquisition; the first token would still
\* pass the cache test
C25_Witness ==
  \E c \in Procs :
    /\ refreshCalls[c] = 1
    /\ pc[c] = "tokReady"
    /\ tok[c] = 2
    /\ token = 2
    /\ acq[1].st = "resolved" /\ acq[1].ein = 3600
    /\ now < acq[1].exp - REFRESH_BUFFER_MS


\* C26: a failed token acquisition is not retried. A caller awaiting an
\* acquisition that the endpoint has failed resumes with the failure and starts
\* no other acquisition; the caller that started it clears refreshPromise; a
\* failed acquisition stays failed; and request() turns the failure into
\* AUTH_ERROR, issues no API call for it and releases its slot.
C26_AcquisitionNotRetried ==
  [][ /\ \A c \in Procs :
           /\ (pc[c] \in {"tokOwn", "tokJoin"} /\ pc'[c] # pc[c]
                 /\ acq[awaiting[c]].st = "rejected") =>
                /\ pc'[c] = "tokFail"
                /\ acq' = acq
                /\ tok'[c] = tok[c]
                /\ pc[c] = "tokOwn" => refreshPromise' = 0
           /\ (pc[c] = "tokFail" /\ pc'[c] # "tokFail") =>
                /\ pc'[c] = "done"
                /\ result'[c] = "AUTH_ERROR"
                /\ acq' = acq
                /\ apiCalls' = apiCalls
                /\ stage[c] = "first" => apiCalls[c] = 0
                /\ releases'[c] = releases[c] + 1
                /\ concurrent' = Max(0, concurrent - 1)
      /\ \A k \in 1..Len(acq) : acq[k].st = "rejected" => acq'[k] = acq[k]
      /\ Len(acq') > Len(acq) =>
           \E c \in Procs : pc[c] \in {"admitted", "fetching"} /\ pc'[c] = "tokOwn" ]_vars
\* two calls of request() shared one acquisition, the endpoint failed it, and
\* both have ended in AUTH_ERROR with no API call and every slot released
C26_Witness ==
  \E c, d \in Procs :
    /\ c # d
    /\ pc[c] = "done" /\ pc[d] = "done"
    /\ result[c] = "AUTH_ERROR" /\ result[d] = "AUTH_ERROR"
    /\ Len(acq) = 1 /\ acq[1].st = "rejected"
    /\ apiCalls[c] = 0 /\ apiCalls[d] = 0
    /\ releases[c] = 1 /\ releases[d] = 1
    /\ refreshPromise = 0
    /\ concurrent = 0


\* C27: an admission takes exactly one token, one daily unit and one slot,
\* counted from the bucket as acquire() recomputed it (a woken waiter does not
\* recompute); release() lowers only concurrent, by one and never below zero,
\* and gives back neither the token nor the daily unit; a limiter on which no
\* call has been made reports the full bucket, the full day and no call in
\* flight.
Admitted(c) == acquires'[c] = acquires[c] + 1
C27_AdmissionAndReleaseEffects ==
  [][ /\ \A c \in Procs :
           /\ Admitted(c) =>
                /\ tokens' = (IF pc[c] = "woken" THEN tokens ELSE refillTokensValue) - 1
                /\ dailyCount' = (IF pc[c] = "woken" THEN dailyCount ELSE refillDailyCount) + 1
                /\ concurrent' = concurrent + 1
           /\ releases'[c] = releases[c] + 1 =>
                /\ concurrent' = Max(0, concurrent - 1)
                /\ tokens' = tokens
                /\ dailyCount' = dailyCount
                /\ lastRefill' = lastRefill
                /\ dailyReset' = dailyReset
      /\ concurrent' >= 0
      /\ ((\A c \in Procs : pc[c] = "idle") /\ syncs = 0) =>
           /\ getStatus.tokensRemaining = maxTokens
           /\ getStatus.dailyRemaining = dailyLimit
           /\ getStatus.concurrentActive = 0 ]_vars
\* one caller was admitted and has released: the token and the daily unit stay
\* spent, the slot is free again
C27_Witness ==
  \E c \in Procs :
    /\ acquires[c] = 1 /\ releases[c] = 1
    /\ \A d \in Procs \ {c} : acquires[d] = 0
    /\ ticks = 0 /\ syncs = 0
    /\ tokens = maxTokens - 1
    /\ dailyCount = 1
    /\ concurrent = 0


\* C28: the credential slot changes only as a whole. A step that changes token
\* or tokenExpiresAt either is the success of an acquisition, which writes the
\* token together with its expiry (the time of the answer plus expires_in), or
\* is refreshToken() or clearToken(), which leave the token absent and the
\* expiry 0; an absent token always has expiry 0, a cached token always has the
\* expiry written with it; and the failure of an acquisition changes neither.
SlotChanges == token' # token \/ tokenExpiresAt' # tokenExpiresAt
ClearsSlot ==
  /\ token' = 0 /\ tokenExpiresAt' = 0
  /\ \/ \E c \in Procs : refreshCalls'[c] = refreshCalls[c] + 1
     \/ pc' = pc /\ acq' = acq /\ refreshPromise' = refreshPromise
FillsSlot ==
  \E k \in 1..Len(acq) :
    /\ acq[k].st = "pending" /\ acq'[k].st = "resolved"
    /\ token' = k
    /\ tokenExpiresAt' = now + acq'[k].ein * 1000
C28_FailureKeepsSlot ==
  /\ Len(acq) = 2
  /\ acq[2].st = "rejected"
  /\ token = 1
  /\ tokenExpiresAt = acq[1].exp


\* C29: a response with status 204 ends the call at once with the empty
\* result: the body is not awaited or decoded, no error is raised, no error
\* details are recorded, and the slot is released.
NoContent(c) == pc[c] = "fetching" /\ pc'[c] # "fetching" /\ status'[c] = 204
C29_NoContentIsEmptySuccess ==
  [][ \A c \in Procs :
        /\ NoContent(c) =>
             /\ pc'[c] = "done"
             /\ result'[c] = "OK_EMPTY"
             /\ details' = details
             /\ thrown' = thrown
             /\ releases'[c] = releases[c] + 1
        /\ pc'[c] = "body" => status'[c] # 204
        /\ result'[c] = "OK_EMPTY" => status'[c] = 204 ]_vars
\* a call has been answered 204 and has ended with the empty result, its slot
\* released
C29_Witness ==
  \E c \in Procs :
    /\ pc[c] = "done"
    /\ status[c] = 204
    /\ result[c] = "OK_EMPTY"
    /\ details[c] = NoDetails
    /\ apiCalls[c] = 1
    /\ releases[c] = 1
    /\ concurrent = 0


\* C30: isNearLimit() first applies the refill and the daily reset that are
\* due, and then returns true exactly when at most NearTokens tokens or at most
\* NearDaily calls of the day are left. On the shipped limiter it is false
\* while nothing has been spent and true once TestAdmissions calls have been
\* admitted within the minute.
C30_NearLimitExactly ==
  [][ nearLimit' # nearLimit =>
        /\ nearLimit'.called
        /\ tokens' = refillTokensValueOf(ShippedMaxTokens)
        /\ dailyCount' = refillDailyCount
        /\ nearLimit'.near <=>
             (tokens' <= 5 \/ ShippedDailyLimit - dailyCount' <= 100)
        /\ (tokens' = ShippedMaxTokens /\ dailyCount' = 0) => ~nearLimit'.near
        /\ (tokens' = ShippedMaxTokens - TestAdmissions /\ dailyCount' = TestAdmissions) =>
             nearLimit'.near ]_vars
\* the answer is false: more than NearTokens tokens and more than NearDaily
\* calls are left, here after a refill of a bucket that was nearly empty
C30_Witness ==
  /\ nearLimit.called
  /\ ~nearLimit.near
  /\ ticks > 0
  /\ tokens = ShippedMaxTokens
  /\ ShippedDailyLimit - dailyCount = NearDaily + 1
\* the answer after TestAdmissions admissions within the minute is true
C30_AfterTestAdmissions ==
  /\ nearLimit.called
  /\ nearLimit.near
  /\ ticks = 0
  /\ tokens = ShippedMaxTokens - TestAdmissions
  /\ dailyCount = TestAdmissions
\* the answer is true for the day's sake alone, with the bucket full
C30_NearForTheDay ==
  /\ nearLimit.called
  /\ nearLimit.near
  /\ tokens = ShippedMaxTokens
  /\ ShippedDailyLimit - dailyCount = NearDaily

====
